---- MODULE Spec2Model ----
(***************************************************************************)
(* A model of Backend/api/common/controller/TriageController.py: the       *)
(* forecast-and-assemble pipeline of TriageController.predict and its      *)
(* helpers get_historic_data_year, sort_referral_data, get_model and       *)
(* get_predictions.                                                        *)
(*                                                                         *)
(* Representation.  A date string 'YYYY-MM-DD' is the triple <<y, m, d>>;  *)
(* a datetime is its proleptic Gregorian ordinal (datetime.toordinal), so  *)
(* that adding a timedelta is integer addition and strptime / strftime are *)
(* real conversions between the two.  A float of the model's output is a   *)
(* fixed-point integer counting tenths (15 is 1.5, -15 is -1.5).  A Python *)
(* list is a sequence, Python index k being position k + 1.                *)
(***************************************************************************)
EXTENDS Integers, Sequences, FiniteSets, TLC

VARIABLES
    \* the program's inputs and the tables it reads
    intervals,              \* self.intervals: list of (start, end) date strings
    clinic_settings,        \* ClinicData.clinic_settings: list of triage classes
    historicdata,           \* table triagedata.historicdata: list of rows
    models,                 \* table triagedata.models: in_use file paths per severity
    \* predict's control state and locals
    pc, err, returned, response, ti,
    prediction_start_date, prediction_interval_length, historic_data_interval,
    referral_data, sorted_referral_data, model,
    \* get_predictions' locals
    seed, data, offset, predictions, windows,
    \* the calls made to the collaborators, in order
    calls, sims,
    \* a helper called on its own: its arguments and what it returned
    args, ret

vars == << intervals, clinic_settings, historicdata, models,
           pc, err, returned, response, ti,
           prediction_start_date, prediction_interval_length, historic_data_interval,
           referral_data, sorted_referral_data, model,
           seed, data, offset, predictions, windows,
           calls, sims, args, ret >>

-----------------------------------------------------------------------------
(* Program constants *)

ML_PADDING_LENGTH == 30
SIM_PADDING_LENGTH == 7
\* np.zeros(12 + 31)
MONTH_SLOTS == 12
DAY_SLOTS == 31

(* Bounds of the model *)

\* longest prediction horizon, in days
MaxH == 3
\* most referral rows handed to sort_referral_data on its own
MaxEvents == 3
\* longest window asked of sort_referral_data on its own
MaxL == 3
\* longest seed window handed to get_predictions on its own
MaxK == 3

-----------------------------------------------------------------------------
(* Python helpers *)

RECURSIVE Sum(_)
Sum(s) == IF s = << >> THEN 0 ELSE Head(s) + Sum(Tail(s))

Max(a, b) == IF a >= b THEN a ELSE b
Min(a, b) == IF a <= b THEN a ELSE b

\* s[-n:] for n >= 1
LastN(s, n) == SubSeq(s, Max(1, Len(s) - n + 1), Len(s))

\* s[1:]
DropFirst(s) == SubSeq(s, 2, Len(s))

\* zip(a, b): as long as the shorter of the two
Zip(a, b) == [ j \in 1..Min(Len(a), Len(b)) |-> << a[j], b[j] >> ]

\* mutant of PyInt: the floor, math.floor(x), which differs below zero
PyIntFloor(x) == x \div 10

\* int(x) of a float x given in tenths: truncation toward zero
PyInt(x) == IF x >= 0 THEN x \div 10 ELSE -((-x) \div 10)

-----------------------------------------------------------------------------
(* datetime: the proleptic Gregorian calendar *)

Years == 2019..2022

IsLeap(y) == (y % 4 = 0) /\ ((y % 100 # 0) \/ (y % 400 = 0))

DaysInMonth(y, m) ==
    IF m = 2 THEN (IF IsLeap(y) THEN 29 ELSE 28)
    ELSE IF m \in {4, 6, 9, 11} THEN 30 ELSE 31

DaysBeforeYear(y) ==
    (y - 1) * 365 + ((y - 1) \div 4) - ((y - 1) \div 100) + ((y - 1) \div 400)

RECURSIVE DaysBeforeMonth(_, _)
DaysBeforeMonth(y, m) ==
    IF m = 1 THEN 0 ELSE DaysBeforeMonth(y, m - 1) + DaysInMonth(y, m - 1)

ValidDate(s) ==
    /\ s[2] \in 1..12
    /\ s[3] \in 1..DaysInMonth(s[1], s[2])

\* datetime.strptime(s, '%Y-%m-%d'), as an ordinal
strptime(s) == DaysBeforeYear(s[1]) + DaysBeforeMonth(s[1], s[2]) + s[3]

\* dt.strftime('%Y-%m-%d'); dt.year, dt.month, dt.day are its three fields
strftime(n) ==
    LET y == CHOOSE yy \in Years :
                 DaysBeforeYear(yy) < n /\ n <= DaysBeforeYear(yy + 1)
        r == n - DaysBeforeYear(y)
        m == CHOOSE mm \in 1..12 :
                 DaysBeforeMonth(y, mm) < r
                 /\ r <= DaysBeforeMonth(y, mm) + DaysInMonth(y, mm)
    IN  << y, m, r - DaysBeforeMonth(y, m) >>

\* dt.replace(year=y): ValueError when the day does not exist in year y
replace_year(n, y) ==
    LET s == strftime(n)
        t == << y, s[2], s[3] >>
    IN  IF ValidDate(t) THEN [raised |-> "none", value |-> strptime(t)]
        ELSE [raised |-> "ValueError", value |-> 0]

-----------------------------------------------------------------------------
(* The data store.  A row of triagedata.historicdata is                    *)
(* << clinic_id, severity, date_received >>: the code reads only           *)
(* referral[2], the date string.                                           *)

Row(sev, date) == << 1, sev, date >>

\* collections.Counter(referral[2] for referral in referral_data)[date],
\* 0 for a date that is no key
Counter(rows, date) == Cardinality({ j \in DOMAIN rows : rows[j][3] = date })

\* ClinicData.get_referral_data(severity, (start, end)): the rows of that
\* severity received from start to end, both included, in table order
RECURSIVE SelectSeq2(_, _, _, _)
SelectSeq2(rows, sev, lo, hi) ==
    IF rows = << >> THEN << >>
    ELSE LET r == Head(rows)
             rest == SelectSeq2(Tail(rows), sev, lo, hi)
         IN  IF r[2] = sev /\ lo <= strptime(r[3]) /\ strptime(r[3]) <= hi
             THEN << r >> \o rest ELSE rest

get_referral_data(table, sev, interval) ==
    SelectSeq2(table, sev, interval[1], interval[2])

\* mutant of HistoricYearWhere: the day strictly after, EXTRACT(DAY ...) > day
HistoricYearWhereStrict(date, month, day) == date[2] = month /\ date[3] > day

\* WHERE EXTRACT(MONTH FROM date_received) = month
\*   AND EXTRACT(DAY FROM date_received) >= day
HistoricYearWhere(date, month, day) == date[2] = month /\ date[3] >= day

\* SELECT EXTRACT(YEAR ...) ... ORDER BY date_received DESC FETCH FIRST 1 ROWS
\* ONLY: the year of the latest matching row, as a list of at most one row
SelectHistoricYear(table, month, day) ==
    LET hits == { j \in DOMAIN table : HistoricYearWhere(table[j][3], month, day) }
    IN  IF hits = {} THEN << >>
        ELSE LET j == CHOOSE k \in hits :
                          \A l \in hits : strptime(table[l][3]) <= strptime(table[k][3])
             IN  << << table[j][3][1] >> >>

\* TriageController.get_historic_data_year
get_historic_data_year(table, start_date) ==
    LET dt   == strftime(strptime(start_date))
        year == SelectHistoricYear(table, dt[2], dt[3])
    IN  IF Len(year) # 1
        THEN [raised |-> "RuntimeError", value |-> 0]
        ELSE [raised |-> "none", value |-> year[1][1]]

\* mutant of DateList: offsets counted from 1, range(1, interval_length + 1)
DateListFromOne(start_date, interval_length) ==
    [ k \in 1..interval_length |-> strftime(start_date + k) ]

\* the date_list of sort_referral_data
DateList(start_date, interval_length) ==
    [ k \in 1..interval_length |-> strftime(start_date + (k - 1)) ]

\* TriageController.sort_referral_data
sort_referral_data(rows, start_date, interval_length) ==
    LET date_list == DateList(start_date, interval_length)
    IN  [ k \in 1..interval_length |-> Counter(rows, date_list[k]) ]

\* SELECT file_path FROM triagedata.models WHERE clinic_id, severity, in_use
SelectModels(table, sev) == table[sev]

-----------------------------------------------------------------------------
(* get_predictions' calendar feature and the predictive model *)

\* a[k] = v on a numpy array: IndexError when k is not below its size
SetItem(a, k, v) ==
    IF a.raised # "none" THEN a
    ELSE IF k >= Len(a.value) THEN [raised |-> "IndexError", value |-> a.value]
    ELSE [raised |-> "none", value |-> [a.value EXCEPT ![k + 1] = v]]

\* the position one_hot_date[...] = 1 is written at, for the month and the day
MonthIndex(month) == month
DayIndex(day) == MONTH_SLOTS + day

\* one_hot_date of the date with this month and day
OneHotDate(month, day) ==
    LET zeros == [raised |-> "none", value |-> [ k \in 1..(MONTH_SLOTS + DAY_SLOTS) |-> 0 ]]
    IN  SetItem(SetItem(zeros, MonthIndex(month), 1), DayIndex(day), 1)

\* The registered model files.  K is the context length the model was trained
\* with; kind names the scoring function standing for it.
ModelFiles ==
    [ mean    |-> [path |-> "mean",    K |-> ML_PADDING_LENGTH,     kind |-> "mean"],
      trend   |-> [path |-> "trend",   K |-> ML_PADDING_LENGTH,     kind |-> "trend"],
      pair    |-> [path |-> "pair",    K |-> ML_PADDING_LENGTH,     kind |-> "pair"],
      longctx |-> [path |-> "longctx", K |-> ML_PADDING_LENGTH + 1, kind |-> "mean"] ]

ModelKinds == {"mean", "trend", "pair"}

NoModel == [path |-> "none", K |-> 0, kind |-> "none"]

\* tf.keras.models.load_model(file_path)
load_model(path) == ModelFiles[path]

\* position of the first 1 of a feature at or after position lo
FirstOne(feature, lo) ==
    IF \E k \in lo..Len(feature) : feature[k] = 1
    THEN CHOOSE k \in lo..Len(feature) :
             feature[k] = 1 /\ \A l \in lo..(k - 1) : feature[l] # 1
    ELSE 0

\* model.predict([window, feature])[0], in tenths:
\*   mean   the window's average, one channel
\*   trend  a falling trend, 1.5 below the last count, one channel
\*   pair   the last count plus 0.7, and the feature's month slot as a second channel
ModelPredict(m, window, feature) ==
    CASE m.kind = "mean"  -> << (10 * Sum(window)) \div Len(window) >>
      [] m.kind = "trend" -> << 10 * window[Len(window)] - 15 >>
      [] OTHER            -> << 10 * window[Len(window)] + 7, 10 * FirstOne(feature, 1) >>

\* data[1:] + [int(prediction[0][0])]
SlideWindow(window, prediction) == DropFirst(window) \o << PyInt(prediction[1]) >>

-----------------------------------------------------------------------------
(* The values predict works on *)

Date(y, m, d) == << y, m, d >>

TriageClass(name, sev, duration, proportion) ==
    [name |-> name, severity |-> sev, duration |-> duration, proportion |-> proportion]

\* a dict as the list of its items in insertion order; d[k] = v
DictSet(d, k, v) ==
    IF \E j \in DOMAIN d : d[j].key = k
    THEN [ j \in DOMAIN d |-> IF d[j].key = k THEN [key |-> k, value |-> v] ELSE d[j] ]
    ELSE Append(d, [key |-> k, value |-> v])

DictKeys(d) == { d[j].key : j \in DOMAIN d }

DictGet(d, k) == d[CHOOSE j \in DOMAIN d : d[j].key = k].value

NotReturned == [returned |-> FALSE, value |-> << >>]

NoInterval == << 0, 0 >>

\* expected_slots values the simulation may report
SlotValues == {1, 2}

\* sim.resources.minintervalschedule.gen_min_interval_slots: one
\* SimulationResults per interval, each with an expected_slots field
SimulationOutcomes(ivs) ==
    { [ j \in DOMAIN ivs |-> [expected_slots |-> f[j]] ] : f \in [DOMAIN ivs -> SlotValues] }

\* mutant of Padding: the oldest days of the window, sorted[:SIM_PADDING_LENGTH]
PaddingFromHead(sorted) ==
    [ j \in 1..Min(Len(sorted), SIM_PADDING_LENGTH) |-> << sorted[j], 0 >> ]

\* the padding segment of predict's data_frame_data
Padding(sorted) == [ j \in DOMAIN LastN(sorted, SIM_PADDING_LENGTH) |->
                        << LastN(sorted, SIM_PADDING_LENGTH)[j], 0 >> ]

\* padding + predictions + [[0, 0]]
DataFrameData(sorted, preds) == Padding(sorted) \o preds \o << << 0, 0 >> >>

\* DataFrame(self.intervals, data_frame_data, (self.SIM_PADDING_LENGTH, 0))
DataFrame(ivs, dfd) ==
    [intervals |-> ivs, data |-> dfd, offset |-> << SIM_PADDING_LENGTH, 0 >>]

\* mutant of FormatResults: the interval's dates taken from the wrong ends
FormatResultsSwapped(sim_results, ivs) ==
    LET z == Zip(sim_results, ivs)
    IN  [ j \in DOMAIN z |-> [slots      |-> z[j][1].expected_slots,
                              start_date |-> z[j][2][2],
                              end_date   |-> z[j][2][1]] ]

\* the list comprehension over zip(sim_results, self.intervals)
FormatResults(sim_results, ivs) ==
    LET z == Zip(sim_results, ivs)
    IN  [ j \in DOMAIN z |-> [slots      |-> z[j][1].expected_slots,
                              start_date |-> z[j][2][1],
                              end_date   |-> z[j][2][2]] ]

\* what model.predict may do with this window: a model fed a window that is
\* not of its context length may reject it or score it
PredictOutcomes(m, window) ==
    IF Len(window) = m.K THEN {"scored"} ELSE {"scored", "rejected"}

-----------------------------------------------------------------------------
(* TriageController.predict *)

\* lines 71-85: the horizon, the historic window, the clinic's settings
PredictBegin ==
    /\ pc = "start"
    /\ LET start == strptime(intervals[1][1])
           end   == strptime(intervals[Len(intervals)][2])
           historic_data_interval_length == Max(ML_PADDING_LENGTH, SIM_PADDING_LENGTH)
           year  == get_historic_data_year(historicdata, intervals[1][1])
           hend  == replace_year(strptime(intervals[1][1]), year.value)
       IN  /\ prediction_start_date' = start
           /\ prediction_interval_length' = (end - start) + 1
           /\ IF year.raised # "none"
              THEN /\ pc' = "raised"
                   /\ err' = "RuntimeError: historic data year"
                   /\ calls' = Append(calls, << "historic_year", 0 >>)
                   /\ UNCHANGED historic_data_interval
              ELSE IF hend.raised # "none"
              THEN /\ pc' = "raised"
                   /\ err' = "ValueError"
                   /\ calls' = Append(calls, << "historic_year", 0 >>)
                   /\ UNCHANGED historic_data_interval
              ELSE /\ pc' = "loop"
                   /\ err' = err
                   /\ calls' = calls \o << << "historic_year", 0 >>, << "clinic_settings", 0 >> >>
                   /\ historic_data_interval' =
                          << hend.value - historic_data_interval_length, hend.value >>
    /\ response' = << >>
    /\ ti' = 1
    /\ UNCHANGED << intervals, clinic_settings, historicdata, models, returned,
                    referral_data, sorted_referral_data, model,
                    seed, data, offset, predictions, windows, sims, args, ret >>

\* lines 86-90: the next triage class's referral data, counted per day
ClassBegin ==
    /\ pc = "loop"
    /\ ti <= Len(clinic_settings)
    /\ LET triage_class == clinic_settings[ti]
           historic_data == get_referral_data(historicdata, triage_class.severity,
                                              historic_data_interval)
       IN  /\ referral_data' = historic_data
           /\ sorted_referral_data' =
                  sort_referral_data(historic_data, historic_data_interval[1],
                                     Max(ML_PADDING_LENGTH, SIM_PADDING_LENGTH))
    /\ calls' = Append(calls, << "referral_data", ti >>)
    /\ pc' = "get_model"
    /\ UNCHANGED << intervals, clinic_settings, historicdata, models, err, returned,
                    response, ti, prediction_start_date, prediction_interval_length,
                    historic_data_interval, model,
                    seed, data, offset, predictions, windows, sims, args, ret >>

\* mutant of GetModel: a class without a model is skipped, the run goes on
GetModelSkipsMissing ==
    /\ pc = "get_model"
    /\ LET rows == SelectModels(models, clinic_settings[ti].severity)
       IN  IF Len(rows) = 0
           THEN /\ pc' = "loop"
                /\ ti' = ti + 1
                /\ calls' = Append(calls, << "model_lookup", ti >>)
                /\ UNCHANGED << err, model, seed, data, offset, predictions, windows >>
           ELSE /\ pc' = "get_predictions"
                /\ calls' = calls \o << << "model_lookup", ti >>, << "model_load", ti >> >>
                /\ model' = load_model(rows[1])
                /\ seed' = LastN(sorted_referral_data, ML_PADDING_LENGTH)
                /\ data' = LastN(sorted_referral_data, ML_PADDING_LENGTH)
                /\ offset' = 0
                /\ predictions' = << >>
                /\ windows' = << >>
                /\ UNCHANGED << err, ti >>
    /\ UNCHANGED << intervals, clinic_settings, historicdata, models, returned,
                    response, prediction_start_date, prediction_interval_length,
                    historic_data_interval, referral_data, sorted_referral_data,
                    sims, args, ret >>

\* lines 93 and 157-176: get_model, then the call of get_predictions (94-98)
GetModel ==
    /\ pc = "get_model"
    /\ LET rows == SelectModels(models, clinic_settings[ti].severity)
       IN  IF Len(rows) = 0
           THEN /\ pc' = "raised"
                /\ err' = "RuntimeError: model"
                /\ calls' = Append(calls, << "model_lookup", ti >>)
                /\ UNCHANGED << model, seed, data, offset, predictions, windows >>
           ELSE /\ pc' = "get_predictions"
                /\ err' = err
                /\ calls' = calls \o << << "model_lookup", ti >>, << "model_load", ti >> >>
                /\ model' = load_model(rows[1])
                /\ seed' = LastN(sorted_referral_data, ML_PADDING_LENGTH)
                /\ data' = LastN(sorted_referral_data, ML_PADDING_LENGTH)
                /\ offset' = 0
                /\ predictions' = << >>
                /\ windows' = << >>
    /\ UNCHANGED << intervals, clinic_settings, historicdata, models, returned,
                    response, ti, prediction_start_date, prediction_interval_length,
                    historic_data_interval, referral_data, sorted_referral_data,
                    sims, args, ret >>

\* lines 182-191: one iteration of get_predictions' loop
PredictionsStep ==
    /\ pc = "get_predictions"
    /\ offset < prediction_interval_length
    /\ LET date == strftime(prediction_start_date + offset)
           one_hot_date == OneHotDate(date[2], date[3])
       IN  IF one_hot_date.raised # "none"
           THEN /\ pc' = "raised"
                /\ err' = one_hot_date.raised
                /\ UNCHANGED << data, offset, predictions, windows, calls >>
           ELSE \E outcome \in PredictOutcomes(model, data) :
                    /\ calls' = Append(calls, << "model_predict", ti >>)
                    /\ windows' = Append(windows, [window |-> data,
                                                   feature |-> one_hot_date.value])
                    /\ IF outcome = "rejected"
                       THEN /\ pc' = "raised"
                            /\ err' = "UpstreamFailure"
                            /\ UNCHANGED << data, offset, predictions >>
                       ELSE LET prediction ==
                                    ModelPredict(model, data, one_hot_date.value)
                            IN  /\ predictions' = Append(predictions, prediction)
                                /\ data' = SlideWindow(data, prediction)
                                /\ offset' = offset + 1
                                /\ UNCHANGED << pc, err >>
    /\ UNCHANGED << intervals, clinic_settings, historicdata, models, returned,
                    response, ti, prediction_start_date, prediction_interval_length,
                    historic_data_interval, referral_data, sorted_referral_data, model,
                    seed, sims, args, ret >>

\* line 192: get_predictions returns
PredictionsReturn ==
    /\ pc = "get_predictions"
    /\ offset >= prediction_interval_length
    /\ pc' = "assemble"
    /\ UNCHANGED << intervals, clinic_settings, historicdata, models, err, returned,
                    response, ti, prediction_start_date, prediction_interval_length,
                    historic_data_interval, referral_data, sorted_referral_data, model,
                    seed, data, offset, predictions, windows, calls, sims, args, ret >>

\* lines 100-121: the data frame, the simulation, the class's response entry
Simulate ==
    /\ pc = "assemble"
    /\ LET triage_class == clinic_settings[ti]
           data_frame == DataFrame(intervals,
                                   DataFrameData(sorted_referral_data, predictions))
       IN  \E sim_results \in SimulationOutcomes(intervals) :
               /\ sims' = Append(sims, [cls          |-> ti,
                                        data_frame   |-> data_frame,
                                        window       |-> triage_class.duration * 7,
                                        min_ratio    |-> triage_class.proportion,
                                        final_window |-> triage_class.duration * 14,
                                        start        |-> 0,
                                        end          |-> Len(intervals) - 1,
                                        results      |-> sim_results])
               /\ response' = DictSet(response, triage_class.name,
                                      FormatResults(sim_results, intervals))
    /\ calls' = Append(calls, << "simulation", ti >>)
    /\ ti' = ti + 1
    /\ pc' = "loop"
    /\ UNCHANGED << intervals, clinic_settings, historicdata, models, err, returned,
                    prediction_start_date, prediction_interval_length,
                    historic_data_interval, referral_data, sorted_referral_data, model,
                    seed, data, offset, predictions, windows, args, ret >>

\* line 122: return response
PredictReturn ==
    /\ pc = "loop"
    /\ ti > Len(clinic_settings)
    /\ returned' = [returned |-> TRUE, value |-> response]
    /\ pc' = "done"
    /\ UNCHANGED << intervals, clinic_settings, historicdata, models, err,
                    response, ti, prediction_start_date, prediction_interval_length,
                    historic_data_interval, referral_data, sorted_referral_data, model,
                    seed, data, offset, predictions, windows, calls, sims, args, ret >>

-----------------------------------------------------------------------------
(* The helpers called on their own *)

\* sort_referral_data(args.referral_data, args.start_date, args.interval_length)
SortCall ==
    /\ pc = "call sort_referral_data"
    /\ ret' = [raised |-> "none",
               value  |-> sort_referral_data(args.referral_data, args.start_date,
                                             args.interval_length)]
    /\ pc' = "returned"
    /\ UNCHANGED << intervals, clinic_settings, historicdata, models, err, returned,
                    response, ti, prediction_start_date, prediction_interval_length,
                    historic_data_interval, referral_data, sorted_referral_data, model,
                    seed, data, offset, predictions, windows, calls, sims, args >>

\* get_historic_data_year(args.start_date)
YearCall ==
    /\ pc = "call get_historic_data_year"
    /\ ret' = get_historic_data_year(historicdata, args.start_date)
    /\ calls' = Append(calls, << "historic_year", 0 >>)
    /\ pc' = "returned"
    /\ UNCHANGED << intervals, clinic_settings, historicdata, models, err, returned,
                    response, ti, prediction_start_date, prediction_interval_length,
                    historic_data_interval, referral_data, sorted_referral_data, model,
                    seed, data, offset, predictions, windows, sims, args >>

-----------------------------------------------------------------------------
(* Inputs *)

\* all sequences over S of length at most n
SeqsUpTo(S, n) == UNION { [1..k -> S] : k \in 0..n }

\* the rows of table whose positions are in keep, in table order
RECURSIVE Restrict(_, _, _)
Restrict(table, keep, j) ==
    IF j > Len(table) THEN << >>
    ELSE (IF j \in keep THEN << table[j] >> ELSE << >>) \o Restrict(table, keep, j + 1)

\* first days of a prediction horizon: one reaching the 31st of a month, one
\* inside a month, one in a month some tables hold no record of
StartDates == { Date(2021, 1, 29), Date(2021, 3, 10), Date(2021, 5, 5) }

\* n contiguous intervals covering the h days from start
IntervalLists(start, h) ==
    LET s == strptime(start)
    IN  { << << strftime(s), strftime(s + h - 1) >> >> }
        \cup { << << strftime(s), strftime(s + k - 1) >>,
                  << strftime(s + k), strftime(s + h - 1) >> >> : k \in 1..(h - 1) }

IntervalInputs == UNION { IntervalLists(d, h) : d \in StartDates, h \in 1..MaxH }

\* historic tables: a dense one whose latest March and January records are of
\* 2020, with referrals on both ends of the historic window and of the
\* padding, and a sparse one of 2019
DenseTable ==
    << Row(1, Date(2019, 3, 15)), Row(1, Date(2020, 2, 8)),  Row(1, Date(2020, 2, 9)),
       Row(1, Date(2020, 3, 2)),  Row(1, Date(2020, 3, 3)),  Row(1, Date(2020, 3, 9)),
       Row(1, Date(2020, 3, 9)),  Row(2, Date(2020, 3, 8)),  Row(1, Date(2020, 3, 10)),
       Row(2, Date(2019, 12, 30)), Row(1, Date(2020, 1, 22)), Row(1, Date(2020, 1, 28)),
       Row(1, Date(2020, 1, 28)), Row(2, Date(2020, 1, 29)), Row(1, Date(2020, 1, 30)) >>

SparseTable ==
    << Row(2, Date(2019, 3, 20)), Row(1, Date(2019, 1, 31)), Row(1, Date(2019, 5, 5)),
       Row(1, Date(2019, 5, 4)),  Row(2, Date(2019, 4, 28)) >>

HistoricTables == { DenseTable, SparseTable }

ClinicSettings ==
    { << TriageClass("urgent", 1, 2, 9) >>,
      << TriageClass("urgent", 1, 2, 9), TriageClass("standard", 2, 4, 7) >>,
      << TriageClass("standard", 2, 4, 7), TriageClass("urgent", 1, 2, 9) >>,
      << TriageClass("urgent", 1, 2, 9), TriageClass("urgent", 2, 4, 7) >> }

Severities == {1, 2}

\* the in_use rows of triagedata.models per severity: one model each, none for
\* a severity, two for a severity, a model of a longer context
ModelTables ==
    { [sev \in Severities |-> IF sev = 1 THEN << "mean" >> ELSE << "pair" >>],
      [sev \in Severities |-> IF sev = 1 THEN << "trend" >> ELSE << >>],
      [sev \in Severities |-> IF sev = 1 THEN << "pair", "mean" >> ELSE << "trend" >>],
      [sev \in Severities |-> IF sev = 1 THEN << "longctx" >> ELSE << "mean" >>] }

NoArgs == [none |-> TRUE]
NoRet == [raised |-> "none", value |-> << >>]

\* the locals of predict before it runs
LocalsInit ==
    /\ err = "none"
    /\ returned = NotReturned
    /\ response = << >>
    /\ ti = 0
    /\ prediction_start_date = 0
    /\ prediction_interval_length = 0
    /\ historic_data_interval = NoInterval
    /\ referral_data = << >>
    /\ sorted_referral_data = << >>
    /\ model = NoModel
    /\ seed = << >>
    /\ data = << >>
    /\ offset = 0
    /\ predictions = << >>
    /\ windows = << >>
    /\ calls = << >>
    /\ sims = << >>

-----------------------------------------------------------------------------
(* Spec: TriageController(clinic_id, intervals, ...).predict() *)

Init ==
    /\ intervals \in IntervalInputs
    /\ clinic_settings \in ClinicSettings
    /\ historicdata \in HistoricTables
    /\ models \in ModelTables
    /\ pc = "start"
    /\ LocalsInit
    /\ args = NoArgs
    /\ ret = NoRet

Next ==
    \/ PredictBegin
    \/ ClassBegin
    \/ GetModel
    \/ PredictionsStep
    \/ PredictionsReturn
    \/ Simulate
    \/ PredictReturn

Spec == Init /\ [][Next]_vars

-----------------------------------------------------------------------------
(* SpecForecast: get_predictions(model, data, start_date, prediction_length) *)
(* called with a scoring function of context length K and a seed window     *)

SeedCounts == {0, 2}

SpecForecastInit ==
    /\ intervals = << >>
    /\ clinic_settings = << >>
    /\ historicdata = << >>
    /\ models = [sev \in Severities |-> << >>]
    /\ pc = "get_predictions"
    /\ err = "none"
    /\ returned = NotReturned
    /\ response = << >>
    /\ ti = 0
    /\ historic_data_interval = NoInterval
    /\ referral_data = << >>
    /\ sorted_referral_data = << >>
    /\ \E k \in 1..MaxK, kind \in ModelKinds :
           model = [path |-> "stub", K |-> k, kind |-> kind]
    /\ seed \in { s \in SeqsUpTo(SeedCounts, MaxK) : Len(s) >= 1 }
    /\ data = seed
    /\ prediction_start_date \in { strptime(d) : d \in StartDates }
    /\ prediction_interval_length \in 1..MaxH
    /\ offset = 0
    /\ predictions = << >>
    /\ windows = << >>
    /\ calls = << >>
    /\ sims = << >>
    /\ args = NoArgs
    /\ ret = NoRet

SpecForecastNext ==
    \/ PredictionsStep
    \/ PredictionsReturn

SpecForecast == SpecForecastInit /\ [][SpecForecastNext]_vars

-----------------------------------------------------------------------------
(* SpecSort: sort_referral_data on lists of referrals dated around the window *)

SortStarts == { strptime(Date(2020, 2, 28)), strptime(Date(2019, 12, 31)) }

SpecSortInit ==
    /\ intervals = << >>
    /\ clinic_settings = << >>
    /\ historicdata = << >>
    /\ models = [sev \in Severities |-> << >>]
    /\ pc = "call sort_referral_data"
    /\ LocalsInit
    /\ \E start \in SortStarts, len \in 1..MaxL :
         \E rows \in SeqsUpTo({ Row(1, strftime(start + o)) : o \in (-1)..MaxL }, MaxEvents) :
             args = [referral_data |-> rows, start_date |-> start, interval_length |-> len]
    /\ ret = NoRet

SpecSortNext == SortCall

SpecSort == SpecSortInit /\ [][SpecSortNext]_vars

-----------------------------------------------------------------------------
(* SpecYear: get_historic_data_year on every table drawn from a pool of      *)
(* records                                                                   *)

YearPool ==
    << Row(1, Date(2019, 1, 31)), Row(2, Date(2019, 3, 20)), Row(1, Date(2020, 2, 29)),
       Row(1, Date(2020, 3, 9)),  Row(1, Date(2020, 3, 10)), Row(2, Date(2020, 4, 1)),
       Row(1, Date(2020, 12, 25)), Row(1, Date(2021, 2, 28)) >>

YearTargets == { Date(2021, 3, 10), Date(2022, 3, 31), Date(2021, 1, 29),
                 Date(2020, 2, 29), Date(2022, 12, 1) }

SpecYearInit ==
    /\ intervals = << >>
    /\ clinic_settings = << >>
    /\ \E keep \in SUBSET DOMAIN YearPool : historicdata = Restrict(YearPool, keep, 1)
    /\ models = [sev \in Severities |-> << >>]
    /\ pc = "call get_historic_data_year"
    /\ LocalsInit
    /\ \E d \in YearTargets : args = [start_date |-> d]
    /\ ret = NoRet

SpecYearNext == YearCall

SpecYear == SpecYearInit /\ [][SpecYearNext]_vars

-----------------------------------------------------------------------------
(* Claims *)

\* e is the float x (in tenths) cut to its integer part
IsTruncationOf(e, x) ==
    \/ x >= 0 /\ 10 * e <= x /\ x < 10 * e + 10
    \/ x <= 0 /\ 10 * e >= x /\ x > 10 * e - 10

\* C1: in get_predictions the window passed to the model at step 0 is the
\* seed; the window passed at step i + 1 is the window of step i without its
\* first entry and with the integer truncation of element 0 of step i's
\* model output appended last; every window has the seed's length.
C1_WindowSlides ==
    /\ \A i \in DOMAIN windows : Len(windows[i].window) = Len(seed)
    /\ windows # << >> => windows[1].window = seed
    /\ \A i \in 1..(Len(windows) - 1) :
           LET w == windows[i].window
               n == windows[i + 1].window
           IN  /\ i <= Len(predictions)
               /\ \A k \in 1..(Len(w) - 1) : n[k] = w[k + 1]
               /\ IsTruncationOf(n[Len(n)], predictions[i][1])

\* C1's case: a forecast of three steps finished, over a seed of three days,
\* whose first prediction was negative with a fractional part
C1_Witness ==
    /\ pc = "assemble"
    /\ Len(seed) = 3
    /\ Len(windows) = 3
    /\ predictions[1][1] < 0
    /\ predictions[1][1] % 10 # 0

\* the calendar feature of the claim: 43 wide, one 1 among the first 12
\* (month) slots, one 1 among the last 31 (day) slots, 0 elsewhere
WellFormedFeature(f) ==
    /\ Len(f) = MONTH_SLOTS + DAY_SLOTS
    /\ \A k \in DOMAIN f : f[k] \in {0, 1}
    /\ Cardinality({ k \in 1..MONTH_SLOTS : f[k] = 1 }) = 1
    /\ Cardinality({ k \in (MONTH_SLOTS + 1)..(MONTH_SLOTS + DAY_SLOTS) : f[k] = 1 }) = 1

\* C5: for every date of the horizon get_predictions builds its calendar
\* feature without error, and the feature is 43 wide with exactly one month
\* slot and exactly one day slot set, the two ranges being disjoint.
C5_CalendarFeature ==
    /\ err # "IndexError"
    /\ \A i \in DOMAIN windows : WellFormedFeature(windows[i].feature)

\* C8: the model is never invoked with a window shorter than its context
\* length K; when K exceeds the seed window the forecast fails before any
\* prediction.
C8_InsufficientHistory ==
    /\ \A i \in DOMAIN windows : Len(windows[i].window) >= model.K
    /\ (pc \in {"get_predictions", "assemble"} /\ model.K > Len(seed)) =>
           predictions = << >>

\* C10: every entry of a series handed to the simulation is a pair whose
\* second element, the flag, is 0.
C10_FlagAlwaysZero ==
    \A k \in DOMAIN sims :
        \A j \in DOMAIN sims[k].data_frame.data :
            LET e == sims[k].data_frame.data[j]
            IN  Len(e) = 2 /\ e[2] = 0

\* C7: a model is loaded for a triage class only when the registry holds
\* exactly one active model for its severity.
C7_ExactlyOneActiveModel ==
    \A j \in DOMAIN calls :
        calls[j][1] = "model_load" =>
            Len(SelectModels(models, clinic_settings[calls[j][2]].severity)) = 1

\* the triage classes that have no active model
Unmodelled == { i \in DOMAIN clinic_settings :
                    Len(models[clinic_settings[i].severity]) = 0 }

\* C6: a run over a clinic with a triage class that has no active model never
\* returns a response; the model lookup of such a class raises the
\* missing-model error, after which nothing has been returned, the last call
\* made is that lookup, and no query, model call or simulation was made for a
\* later class; a run that ended otherwise ended before reaching that class.
C6_MissingModelAborts ==
    /\ (Unmodelled # {} /\ pc # "start") => ~returned.returned /\ pc # "done"
    /\ (pc = "get_predictions" /\ Len(windows) = 0) => ti \notin Unmodelled
    /\ err = "RuntimeError: model" =>
           /\ pc = "raised"
           /\ ti \in Unmodelled
           /\ returned = NotReturned
           /\ calls[Len(calls)] = << "model_lookup", ti >>
           /\ \A j \in DOMAIN calls : calls[j][2] <= ti
           /\ \A k \in DOMAIN sims : sims[k].cls < ti
    /\ (pc = "raised" /\ err # "RuntimeError: model") =>
           \A i \in Unmodelled : ti <= i

\* C6's case: the second class has no model, after the first was simulated
C6_Witness ==
    /\ err = "RuntimeError: model"
    /\ ti = 2
    /\ Len(sims) = 1
    /\ Len(response) = 1

\* the last triage class of each name
LastOfName(i) ==
    \A l \in DOMAIN clinic_settings :
        clinic_settings[l].name = clinic_settings[i].name => l <= i

ReferralsOn(n) ==
    Cardinality({ j \in DOMAIN referral_data : strptime(referral_data[j][3]) = n })

\* the horizon: days from the first interval's start to the last one's end
Horizon == strptime(intervals[Len(intervals)][2]) - strptime(intervals[1][1]) + 1

\* C2: every series handed to the simulation has length P + H + 1, ends with
\* [0, 0] and carries the boundary offset (P, 0); and, seen when the
\* simulation of a class has just been called, its first P entries are the
\* counts of the P days before the end of the historic window, oldest first,
\* each as [count, 0], whatever the forecast loop did to its window, and the
\* H model outputs follow in calendar order.
C2_AssembledSeries ==
    \A k \in DOMAIN sims :
        LET df == sims[k].data_frame
            P  == SIM_PADDING_LENGTH
        IN  /\ Len(df.data) = P + Horizon + 1
            /\ df.data[Len(df.data)] = << 0, 0 >>
            /\ df.offset = << P, 0 >>
            /\ (k = Len(sims) /\ pc \in {"loop", "done"}) =>
                   /\ \A i \in 1..P :
                          df.data[i] =
                              << ReferralsOn(historic_data_interval[2] - P + i - 1), 0 >>
                   /\ \A i \in 1..Horizon :
                          LET day == strftime(strptime(intervals[1][1]) + i - 1)
                          IN  /\ windows[i].feature = OneHotDate(day[2], day[3]).value
                              /\ df.data[P + i] =
                                     ModelPredict(model, windows[i].window,
                                                  windows[i].feature)

\* C2's case: a series of three forecast days after a padding whose last day
\* had two referrals and whose first day had one, the forecast window having
\* moved
C2_Witness ==
    /\ pc = "loop"
    /\ Len(sims) >= 1
    /\ LET df == sims[Len(sims)].data_frame
       IN  /\ Len(df.data) = SIM_PADDING_LENGTH + 3 + 1
           /\ df.data[SIM_PADDING_LENGTH] = << 2, 0 >>
           /\ df.data[1] = << 1, 0 >>
    /\ data # seed

OnOrAfter(d) ==
    { j \in DOMAIN historicdata :
          LET r == historicdata[j][3]
          IN  r[2] > d[2] \/ (r[2] = d[2] /\ r[3] >= d[3]) }

\* the rows of d's month whose day is on or after d's
SameMonthOnOrAfter(d) ==
    { j \in DOMAIN historicdata :
          LET r == historicdata[j][3]
          IN  r[2] = d[2] /\ r[3] >= d[3] }

\* get_historic_data_year returned the year of the most recent row of S, not
\* later than the most recent data year, or raised when S is empty
AnswersFrom(S) ==
    IF S = {}
    THEN ret.raised = "RuntimeError"
    ELSE /\ ret.raised = "none"
         /\ \E j \in S :
                /\ \A l \in S : strptime(historicdata[l][3]) <= strptime(historicdata[j][3])
                /\ ret.value = historicdata[j][3][1]
         /\ \E h \in DOMAIN historicdata : ret.value <= historicdata[h][3][1]

\* C4, as claimed: get_historic_data_year answers from the records whose
\* (month, day) is on or after the start date's (month, day).
C4_AnchorOnOrAfter ==
    pc = "returned" => AnswersFrom(OnOrAfter(args.start_date))

\* C4, amended: get_historic_data_year answers from the records of the start
\* date's month whose day is on or after the start date's day: it returns the
\* year of the most recent of them, which is not later than the most recent
\* data year, and raises exactly when there is none.
C4_AnchorSameMonth ==
    pc = "returned" => AnswersFrom(SameMonthOnOrAfter(args.start_date))

\* C4's case: records of the start date's month in two years, and a later
\* record of a later month
C4_Witness ==
    /\ pc = "returned"
    /\ args.start_date = Date(2021, 3, 10)
    /\ ret.raised = "none"
    /\ ret.value = 2020
    /\ Cardinality(SameMonthOnOrAfter(args.start_date)) = 2
    /\ Cardinality(OnOrAfter(args.start_date)) > 2

====
